---------------------------- MODULE Spec2Model ----------------------------
(***************************************************************************)
(* Maximum-flow engines of mnrn/graph: ford_fulkerson (depth-first path    *)
(* search fused with augmentation) and edmonds_karp (breadth-first         *)
(* search, then proc), both over the dense capacity / flow matrices c, f   *)
(* and the adjacency lists Gf built by add_edge.                           *)
(*                                                                         *)
(* One behaviour is one run of the two Verify drivers on the same input:   *)
(* main builds graph_t G, constructs the engine from G and calls           *)
(* compute(0, V-1).  The ford_fulkerson object runs first, the             *)
(* edmonds_karp object second, each on its own freshly built object.       *)
(***************************************************************************)
EXTENDS Integers, Sequences, FiniteSets

(***************************************************************************)
(* Bounds of the model.                                                    *)
(***************************************************************************)
MaxV == 4
MaxEdges == 5
MaxCap == 2
ZigzagV == 6

\* The augmentation counters ffaugs and ekaugs count up to MaxAugs, and a
\* compute call is followed for at most MaxAugs augmentations.  No input of
\* the Verify drivers' model has more than (MaxV - 1) * MaxCap units of
\* capacity leaving the source, so only a call that never returns reaches
\* it.
MaxAugs == (MaxV - 1) * MaxCap

(***************************************************************************)
(* Program constants: std::numeric_limits<std::int32_t>::max() and         *)
(* limits::inf, limits::nil.                                               *)
(***************************************************************************)
Int32Max == 2147483647
inf == Int32Max \div 3
\* numeric_limits<int32_t>::min() / 3 truncates toward zero: -715827882
nil == -(Int32Max \div 3)

VARIABLES
    n, s, t, G,
    phase,
    ff, ffpc, ffflow, stack, ret, ffresult, ffaugs,
    ek, ekpc, ekflow, Q, u, i, v, cf_p, ekresult, ekaugs,
    fff0, ffpath, ffdepth, ekf0, eklens,
    build, ts, again

\* History of the running search, for the properties only: the flow matrix
\* as the search began (fff0, ekf0), the vertices of the dfs_visit frames
\* that were live when the sink was entered (ffpath), the largest number of
\* dfs_visit frames live at once since the search began (ffdepth), and the
\* number of edges of each pi chain bfs has found so far (eklens).
ffhist == <<fff0, ffpath, ffdepth>>
ekhist == <<ekf0, eklens>>

\* build is the object an add_edge caller is filling, ts the state of tsort;
\* they are idle while a Verify driver runs.  again tells which compute call
\* each object is in or has last returned from (1 or 2), and what the first
\* call returned and left in f.
others == <<build, ts, again>>

input == <<n, s, t, G>>
ffvars == <<ff, ffpc, ffflow, stack, ret, ffresult, ffaugs, fff0, ffpath, ffdepth>>
ekvars == <<ek, ekpc, ekflow, Q, u, i, v, cf_p, ekresult, ekaugs, ekf0, eklens>>
vars == <<n, s, t, G, phase, ff, ffpc, ffflow, stack, ret, ffresult, ffaugs,
          ek, ekpc, ekflow, Q, u, i, v, cf_p, ekresult, ekaugs,
          fff0, ffpath, ffdepth, ekf0, eklens, build, ts, again>>

Vertices(nn) == 0 .. (nn - 1)

\* Variant of std::min that returns its second argument.
MinLast(a, b) == b

\* std::min
Min(a, b) == IF b < a THEN b ELSE a

(***************************************************************************)
(* Residual network: matrices c, f and adjacency lists Gf.                 *)
(***************************************************************************)
\* explicit ford_fulkerson(std::size_t size) / edmonds_karp(std::size_t size)
EmptyNet(nn) ==
    [c  |-> [a \in Vertices(nn) |-> [b \in Vertices(nn) |-> 0]],
     f  |-> [a \in Vertices(nn) |-> [b \in Vertices(nn) |-> 0]],
     Gf |-> [a \in Vertices(nn) |-> <<>>]]

\* Variant of add_edge that gives the reverse pair the capacity as well.
add_edge_both(net, a, b, cap) ==
    [c  |-> [net.c EXCEPT ![a][b] = cap, ![b][a] = cap],
     f  |-> [net.f EXCEPT ![a][b] = 0, ![b][a] = 0],
     Gf |-> [[net.Gf EXCEPT ![a] = Append(@, b)] EXCEPT ![b] = Append(@, a)]]

\* Variant of add_edge that adds the capacity to what the pair already has
\* and leaves the reverse pair's capacity alone.
add_edge_accumulate(net, a, b, cap) ==
    [c  |-> [net.c EXCEPT ![a][b] = @ + cap],
     f  |-> [net.f EXCEPT ![a][b] = 0, ![b][a] = 0],
     Gf |-> [[net.Gf EXCEPT ![a] = Append(@, b)] EXCEPT ![b] = Append(@, a)]]

\* void add_edge(index_t u, index_t v, capacity_t cap)
add_edge(net, a, b, cap) ==
    LET c1 == [net.c EXCEPT ![a][b] = cap]
        f1 == [net.f EXCEPT ![a][b] = 0]
        c2 == [c1 EXCEPT ![b][a] = 0]
        f2 == [f1 EXCEPT ![b][a] = 0]
        g1 == [net.Gf EXCEPT ![a] = Append(@, b)]
        g2 == [g1 EXCEPT ![b] = Append(@, a)]
    IN  [c |-> c2, f |-> f2, Gf |-> g2]

\* for (auto&& e : G[i]) { add_edge(e.src, e.dst, e.c); }
RECURSIVE AddAll(_, _)
AddAll(net, es) ==
    IF es = <<>> THEN net
    ELSE AddAll(add_edge(net, Head(es).src, Head(es).dst, Head(es).c), Tail(es))

\* for (index_t i = 0; i < n; ++i) { for (auto&& e : G[i]) ... }
RECURSIVE BuildFrom(_, _, _, _)
BuildFrom(net, g, k, nn) ==
    IF k >= nn THEN net ELSE BuildFrom(AddAll(net, g[k]), g, k + 1, nn)

\* explicit ford_fulkerson(const graph_t& G) / edmonds_karp(const graph_t& G)
Construct(g, nn) == BuildFrom(EmptyNet(nn), g, 0, nn)

\* Variant of cf that knows only the first case of the residual capacity:
\* a pair that is not an original edge has none.
cfForwardOnly(o, a, b) == IF o.c[a][b] > 0 THEN o.c[a][b] - o.f[a][b] ELSE 0

\* capacity_t cf(index_t u, index_t v) const
cf(o, a, b) == o.c[a][b] - o.f[a][b]

\* Variant of the forward update that is left out.
AddFlowDropped(f, a, b, d) == f

\* Variant of the forward update that adds the bottleneck twice.
AddFlowTwice(f, a, b, d) == [f EXCEPT ![a][b] = @ + d + d]

\* f[u][v] += cf_p
AddFlow(f, a, b, d) == [f EXCEPT ![a][b] = @ + d]

\* Variant of the reverse update that leaves the reverse entry alone.
SubFlowDropped(f, a, b, d) == f

\* f[v][u] -= cf_p
SubFlow(f, a, b, d) == [f EXCEPT ![a][b] = @ - d]

\* Variant of the reset that sizes the marks once and never clears them.
AssignVisitedOnce(old, nn) ==
    IF old = <<>> THEN [x \in Vertices(nn) |-> FALSE] ELSE old

\* visited.assign(n, false)
AssignVisited(old, nn) == [x \in Vertices(nn) |-> FALSE]

\* Variant of the predecessor record that stores the vertex itself.
SetParentSelf(pi, w, a) == [pi EXCEPT ![w] = w]

\* pi[v] = u
SetParent(pi, w, a) == [pi EXCEPT ![w] = a]

\* Variant of the chain residual that reads the capacity, not the residual.
ChainResidualCapacity(o, w) == o.c[o.pi[w]][w]

\* cf(pi[v], v), the residual capacity of the edge that enters w on the pi chain
ChainResidual(o, w) == cf(o, o.pi[w], w)

\* Variant of the accumulation that overwrites the total.
AccumulateOverwrite(flow, d) == d

\* Ghost count of the augmentations one compute call has performed.
Counted(k) == IF k < MaxAugs THEN k + 1 ELSE k

\* flow += augment  /  flow += proc(s, t)
Accumulate(flow, d) == flow + d

\* capacity_t flow is a 32-bit signed integer: flow += d overflows when the
\* sum leaves [-2^31, 2^31 - 1].  Signed overflow is undefined behaviour; a
\* build either wraps modulo 2^32 or traps.  WrapAdd is the wrapped sum,
\* computed without leaving the 32-bit range.
AddOverflows(flow, d) ==
    \/ d > 0 /\ flow > Int32Max - d
    \/ d < 0 /\ flow < (-Int32Max - 1) - d

WrapAdd(flow, d) ==
    IF d > 0 THEN (flow - Int32Max - 1) + (d - Int32Max - 1)
             ELSE (flow + Int32Max + 1) + (d + Int32Max + 1)

\* Variant of the queue that hands out the newest vertex first.
PushFront(q, w) == <<w>> \o q

\* Q.push(v)
Push(q, w) == Append(q, w)

\* The vertices met walking pi from w back to a, w first: the walk of proc's
\* while (v != s) loops.  The walk is cut after fuel steps.
RECURSIVE Chain(_, _, _, _)
Chain(pi, w, a, fuel) ==
    IF w = a \/ fuel = 0 \/ w \notin DOMAIN pi THEN <<w>>
    ELSE <<w>> \o Chain(pi, pi[w], a, fuel - 1)

(***************************************************************************)
(* Input: what main reads.  V vertices, every unordered pair {a, b} either *)
(* carries no edge or one edge a->b or b->a with a capacity in 1..MaxCap,  *)
(* at most MaxEdges edges in all, listed by increasing destination; main   *)
(* files edge (a, b, c) under G[a] and queries compute(0, V - 1).  A pair  *)
(* of residual capacity 0 is present from the start on the reverse entry   *)
(* that add_edge records for every edge.                                   *)
(***************************************************************************)
Pairs(nn) == {p \in Vertices(nn) \X Vertices(nn) : p[1] < p[2]}
Options == {<<"none", 0>>} \cup ({"fwd", "bwd"} \X (1 .. MaxCap))

EdgeOf(p, o) ==
    IF o[1] = "fwd" THEN [src |-> p[1], dst |-> p[2], c |-> o[2]]
                    ELSE [src |-> p[2], dst |-> p[1], c |-> o[2]]

EdgeSet(nn, opt) == {EdgeOf(p, opt[p]) : p \in {q \in Pairs(nn) : opt[q][1] # "none"}}

\* G[a].emplace_back(a, b, c), the input listed by increasing b
RECURSIVE ListFrom(_, _, _, _)
ListFrom(E, a, b, nn) ==
    IF b >= nn THEN <<>>
    ELSE LET here == {e \in E : e.src = a /\ e.dst = b}
         IN  (IF here = {} THEN <<>> ELSE <<CHOOSE e \in here : TRUE>>)
             \o ListFrom(E, a, b + 1, nn)

GraphOf(E, nn) == [a \in Vertices(nn) |-> ListFrom(E, a, 0, nn)]

Inputs(nn) ==
    {GraphOf(EdgeSet(nn, opt), nn) :
        opt \in {o \in [Pairs(nn) -> Options] :
                    Cardinality({p \in Pairs(nn) : o[p][1] # "none"}) <= MaxEdges}}

(***************************************************************************)
(* A second family of inputs, on ZigzagV vertices: the network             *)
(*     0 -> 1 -> 2 -> t,   0 -> 3 -> 2,   1 -> 4 -> t      (t = V - 1)     *)
(* with every capacity in 1..MaxCap.  Its shortest augmenting path         *)
(* 0 -> 1 -> 2 -> t can block both side paths, so that a later path has to *)
(* cancel flow on 1 -> 2; no network on MaxV = 4 vertices makes the        *)
(* breadth-first engine do that.                                           *)
(***************************************************************************)
ZigzagPairs(nn) ==
    <<<<0, 1>>, <<0, 3>>, <<1, 2>>, <<1, 4>>, <<2, nn - 1>>, <<3, 2>>, <<4, nn - 1>>>>

ZigzagInputs(nn) ==
    {GraphOf({[src |-> ZigzagPairs(nn)[k][1], dst |-> ZigzagPairs(nn)[k][2], c |-> caps[k]] :
                 k \in DOMAIN ZigzagPairs(nn)}, nn) :
        caps \in [DOMAIN ZigzagPairs(nn) -> 1 .. MaxCap]}

(***************************************************************************)
(* A third family, on the same number of vertices: a two-edge path and a   *)
(* three-edge path from source to sink,                                    *)
(*     0 -> 1 -> t,   0 -> 2 -> 3 -> t                     (t = V - 1)     *)
(* with every capacity in 0..MaxCap, so that an edge of capacity 0 can cut *)
(* a path; vertex 4 has no edge.  The source's last neighbour, 2, starts   *)
(* the longer path, so that the order in which a search takes up           *)
(* discovered vertices decides which path it finds.                        *)
(***************************************************************************)
DetourPairs(nn) ==
    <<<<0, 1>>, <<0, 2>>, <<1, nn - 1>>, <<2, 3>>, <<3, nn - 1>>>>

DetourInputs(nn) ==
    {GraphOf({[src |-> DetourPairs(nn)[k][1], dst |-> DetourPairs(nn)[k][2], c |-> caps[k]] :
                 k \in DOMAIN DetourPairs(nn)}, nn) :
        caps \in [DOMAIN DetourPairs(nn) -> 0 .. MaxCap]}

(***************************************************************************)
(* Init: both objects freshly constructed from G, compute about to start.  *)
(***************************************************************************)
IdleBuild == [calls |-> 0]
IdleTsort == [pc |-> "idle"]
FirstCall == [ff |-> 1, ek |-> 1, ffresult |-> 0, fff |-> <<>>, ekresult |-> 0, ekf |-> <<>>]

\* Both objects as their constructors leave them, given n and G.
Constructed ==
    /\ ff = LET net == Construct(G, n)
            IN  [c |-> net.c, f |-> net.f, Gf |-> net.Gf,
                 visited |-> <<>>, augment |-> 0]
    /\ ffpc = "while"
    /\ ffflow = 0
    /\ stack = <<>>
    /\ ret = 0
    /\ ffresult = 0
    /\ ffaugs = 0
    /\ ek = LET net == Construct(G, n)
            IN  [c |-> net.c, f |-> net.f, Gf |-> net.Gf,
                 visited |-> [x \in Vertices(n) |-> FALSE],
                 pi |-> [x \in Vertices(n) |-> 0]]
    /\ ekpc = "while"
    /\ ekflow = 0
    /\ Q = <<>>
    /\ u = 0
    /\ i = 0
    /\ v = 0
    /\ cf_p = 0
    /\ ekresult = 0
    /\ ekaugs = 0
    /\ fff0 = ff.f
    /\ ffpath = <<>>
    /\ ffdepth = 0
    /\ ekf0 = ek.f
    /\ eklens = <<>>
    /\ again = FirstCall

Init ==
    /\ n \in (2 .. MaxV) \cup {ZigzagV}
    /\ s = 0
    /\ t = n - 1
    /\ G \in IF n <= MaxV THEN Inputs(n) ELSE ZigzagInputs(n) \cup DetourInputs(n)
    /\ phase = "ff"
    /\ Constructed
    /\ build = IdleBuild
    /\ ts = IdleTsort

(***************************************************************************)
(* ford_fulkerson::compute, dfs, dfs_visit.  stack holds the live          *)
(* dfs_visit frames, innermost last: u, flow and the position i of the     *)
(* range-for over Gf[u].  ret is the value a dfs_visit call returned.      *)
(***************************************************************************)
Top == stack[Len(stack)]
Pop == SubSeq(stack, 1, Len(stack) - 1)
SetTop(fr) == [stack EXCEPT ![Len(stack)] = fr]

\* while (dfs(s, t)): visited.assign(n, false); dfs_visit(u, t, limits::inf)
FF_dfs ==
    /\ phase = "ff" /\ ffpc = "while"
    /\ ffaugs < MaxAugs
    /\ ff' = [ff EXCEPT !.visited = AssignVisited(ff.visited, n)]
    /\ stack' = <<[u |-> s, flow |-> inf, i |-> 0]>>
    /\ ffpc' = "entry"
    /\ fff0' = ff.f
    /\ ffpath' = <<>>
    /\ ffdepth' = 1
    /\ UNCHANGED <<input, others, phase, ffflow, ret, ffresult, ffaugs, ekvars>>

\* visited[u] = true; if (u == t) { return flow; }
FF_visit_sink ==
    /\ phase = "ff" /\ ffpc = "entry"
    /\ Top.u = t
    /\ ff' = [ff EXCEPT !.visited[Top.u] = TRUE]
    /\ ret' = Top.flow
    /\ stack' = Pop
    /\ ffpc' = "ret"
    /\ ffpath' = [k \in 1 .. Len(stack) |-> stack[k].u]
    /\ UNCHANGED <<fff0, ffdepth>>
    /\ UNCHANGED <<input, others, phase, ffflow, ffresult, ffaugs, ekvars>>

\* Variant of the entry that leaves the vertex unmarked.
FF_visit_enter_unmarked ==
    /\ phase = "ff" /\ ffpc = "entry"
    /\ Top.u # t
    /\ stack' = SetTop([Top EXCEPT !.i = 1])
    /\ ffpc' = "loop"
    /\ UNCHANGED <<input, others, ffhist, phase, ff, ffflow, ret, ffresult, ffaugs, ekvars>>

\* visited[u] = true; u != t: begin for (auto&& v : Gf[u])
FF_visit_enter ==
    /\ phase = "ff" /\ ffpc = "entry"
    /\ Top.u # t
    /\ ff' = [ff EXCEPT !.visited[Top.u] = TRUE]
    /\ stack' = SetTop([Top EXCEPT !.i = 1])
    /\ ffpc' = "loop"
    /\ UNCHANGED <<input, others, ffhist, phase, ffflow, ret, ffresult, ffaugs, ekvars>>

\* the range-for is exhausted: return 0
FF_for_end ==
    /\ phase = "ff" /\ ffpc = "loop"
    /\ Top.i > Len(ff.Gf[Top.u])
    /\ ret' = 0
    /\ stack' = Pop
    /\ ffpc' = "ret"
    /\ UNCHANGED <<input, others, ffhist, phase, ff, ffflow, ffresult, ffaugs, ekvars>>

\* if (visited[v] || cf(u, v) == 0) { continue; }
FF_for_skip ==
    /\ phase = "ff" /\ ffpc = "loop"
    /\ Top.i <= Len(ff.Gf[Top.u])
    /\ LET w == ff.Gf[Top.u][Top.i]
       IN  ff.visited[w] \/ cf(ff, Top.u, w) = 0
    /\ stack' = SetTop([Top EXCEPT !.i = @ + 1])
    /\ UNCHANGED <<input, others, ffhist, phase, ff, ffpc, ffflow, ret, ffresult, ffaugs, ekvars>>

\* Variant of the call that adds the running bottleneck to f[u][v] on the
\* way down and never takes it back.
FF_for_call_eager ==
    /\ phase = "ff" /\ ffpc = "loop"
    /\ Top.i <= Len(ff.Gf[Top.u])
    /\ LET w == ff.Gf[Top.u][Top.i]
       IN  /\ ~(ff.visited[w] \/ cf(ff, Top.u, w) = 0)
           /\ stack' = Append(stack, [u |-> w, i |-> 0,
                                      flow |-> Min(Top.flow, cf(ff, Top.u, w))])
           /\ ff' = [ff EXCEPT !.f = AddFlow(ff.f, Top.u, w, Min(Top.flow, cf(ff, Top.u, w)))]
    /\ ffpc' = "entry"
    /\ ffdepth' = IF Len(stack) + 1 > ffdepth THEN Len(stack) + 1 ELSE ffdepth
    /\ UNCHANGED <<fff0, ffpath>>
    /\ UNCHANGED <<input, others, phase, ffflow, ret, ffresult, ffaugs, ekvars>>

\* dfs_visit(v, t, std::min(flow, cf(u, v)))
FF_for_call ==
    /\ phase = "ff" /\ ffpc = "loop"
    /\ Top.i <= Len(ff.Gf[Top.u])
    /\ LET w == ff.Gf[Top.u][Top.i]
       IN  /\ ~(ff.visited[w] \/ cf(ff, Top.u, w) = 0)
           /\ stack' = Append(stack, [u |-> w, i |-> 0,
                                      flow |-> Min(Top.flow, cf(ff, Top.u, w))])
    /\ ffpc' = "entry"
    /\ ffdepth' = IF Len(stack) + 1 > ffdepth THEN Len(stack) + 1 ELSE ffdepth
    /\ UNCHANGED <<fff0, ffpath>>
    /\ UNCHANGED <<input, others, phase, ff, ffflow, ret, ffresult, ffaugs, ekvars>>

\* if (cf_p > 0) { f[u][v] += cf_p;
FF_ret_add ==
    /\ phase = "ff" /\ ffpc = "ret"
    /\ stack # <<>>
    /\ ret > 0
    /\ ff' = [ff EXCEPT !.f = AddFlow(ff.f, Top.u, ff.Gf[Top.u][Top.i], ret)]
    /\ ffpc' = "upd"
    /\ UNCHANGED <<input, others, ffhist, phase, ffflow, stack, ret, ffresult, ffaugs, ekvars>>

\* Variant of the end of the update without its return: the range-for goes
\* on to the next neighbour.
FF_ret_sub_no_return ==
    /\ phase = "ff" /\ ffpc = "upd"
    /\ ff' = [ff EXCEPT !.f = SubFlow(ff.f, ff.Gf[Top.u][Top.i], Top.u, ret)]
    /\ stack' = SetTop([Top EXCEPT !.i = @ + 1])
    /\ ffpc' = "loop"
    /\ UNCHANGED <<input, others, ffhist, phase, ffflow, ret, ffresult, ffaugs, ekvars>>

\* f[v][u] -= cf_p; return cf_p; }
FF_ret_sub ==
    /\ phase = "ff" /\ ffpc = "upd"
    /\ ff' = [ff EXCEPT !.f = SubFlow(ff.f, ff.Gf[Top.u][Top.i], Top.u, ret)]
    /\ stack' = Pop
    /\ ffpc' = "ret"
    /\ UNCHANGED <<input, others, ffhist, phase, ffflow, ret, ffresult, ffaugs, ekvars>>

\* cf_p > 0 is false: next v of the range-for
FF_ret_zero ==
    /\ phase = "ff" /\ ffpc = "ret"
    /\ stack # <<>>
    /\ ~(ret > 0)
    /\ stack' = SetTop([Top EXCEPT !.i = @ + 1])
    /\ ffpc' = "loop"
    /\ UNCHANGED <<input, others, ffhist, phase, ff, ffflow, ret, ffresult, ffaugs, ekvars>>

\* augment = dfs_visit(...); return augment > 0; true: flow += augment
FF_augmented ==
    /\ phase = "ff" /\ ffpc = "ret"
    /\ stack = <<>>
    /\ ret > 0
    /\ ff' = [ff EXCEPT !.augment = ret]
    /\ IF AddOverflows(ffflow, ret)
          THEN \/ ffflow' = WrapAdd(ffflow, ret) /\ ffpc' = "while"
               \/ ffflow' = ffflow /\ ffpc' = "trap"
          ELSE ffflow' = Accumulate(ffflow, ret) /\ ffpc' = "while"
    /\ ffaugs' = Counted(ffaugs)
    /\ UNCHANGED <<input, others, ffhist, phase, stack, ret, ffresult, ekvars>>

\* augment = dfs_visit(...); return augment > 0; false: return flow
FF_return ==
    /\ phase = "ff" /\ ffpc = "ret"
    /\ stack = <<>>
    /\ ~(ret > 0)
    /\ ff' = [ff EXCEPT !.augment = ret]
    /\ ffresult' = ffflow
    /\ ffpc' = "done"
    /\ phase' = "ek"
    /\ UNCHANGED <<input, others, ffhist, ffflow, stack, ret, ffaugs, ekvars>>

FFNext ==
    \/ FF_dfs \/ FF_visit_sink \/ FF_visit_enter
    \/ FF_for_end \/ FF_for_skip \/ FF_for_call
    \/ FF_ret_add \/ FF_ret_sub \/ FF_ret_zero
    \/ FF_augmented \/ FF_return

(***************************************************************************)
(* edmonds_karp::compute, bfs, proc.  Q is the std::queue of bfs, u the    *)
(* dequeued vertex, i the position of the range-for over Gf[u]; v and cf_p *)
(* are the locals of proc.                                                 *)
(***************************************************************************)
\* while (bfs(s, t)): pi.assign, visited.assign, pi[s] = nil, visited[s] = true, Q.push(s)
EK_bfs ==
    /\ phase = "ek" /\ ekpc = "while"
    /\ ekaugs < MaxAugs
    /\ ekf0' = ek.f
    /\ UNCHANGED eklens
    /\ ek' = [ek EXCEPT !.pi = [x \in Vertices(n) |-> nil],
                        !.visited = [AssignVisited(ek.visited, n) EXCEPT ![s] = TRUE]]
    /\ Q' = <<s>>
    /\ ekpc' = "queue"
    /\ UNCHANGED <<input, others, phase, ffvars, ekflow, u, i, v, cf_p, ekresult, ekaugs>>

\* while (!Q.empty()) { index_t u = Q.front(); Q.pop();
EK_dequeue ==
    /\ phase = "ek" /\ ekpc = "queue"
    /\ Q # <<>>
    /\ u' = Head(Q)
    /\ Q' = Tail(Q)
    /\ i' = 1
    /\ ekpc' = "for"
    /\ UNCHANGED <<input, others, ekhist, phase, ffvars, ek, ekflow, v, cf_p, ekresult, ekaugs>>

\* the range-for over Gf[u] is exhausted
EK_for_end ==
    /\ phase = "ek" /\ ekpc = "for"
    /\ i > Len(ek.Gf[u])
    /\ ekpc' = "queue"
    /\ UNCHANGED <<input, others, ekhist, phase, ffvars, ek, ekflow, Q, u, i, v, cf_p, ekresult, ekaugs>>

\* if (visited[v] || cf(u, v) == 0) { continue; }
EK_for_skip ==
    /\ phase = "ek" /\ ekpc = "for"
    /\ i <= Len(ek.Gf[u])
    /\ LET w == ek.Gf[u][i] IN ek.visited[w] \/ cf(ek, u, w) = 0
    /\ i' = i + 1
    /\ UNCHANGED <<input, others, ekhist, phase, ffvars, ek, ekpc, ekflow, Q, u, v, cf_p, ekresult, ekaugs>>

\* visited[v] = true; pi[v] = u; Q.push(v);
EK_for_mark ==
    /\ phase = "ek" /\ ekpc = "for"
    /\ i <= Len(ek.Gf[u])
    /\ LET w == ek.Gf[u][i]
       IN  /\ ~(ek.visited[w] \/ cf(ek, u, w) = 0)
           /\ ek' = [ek EXCEPT !.visited[w] = TRUE, !.pi = SetParent(@, w, u)]
           /\ Q' = Push(Q, w)
    /\ i' = i + 1
    /\ UNCHANGED <<input, others, ekhist, phase, ffvars, ekpc, ekflow, u, v, cf_p, ekresult, ekaugs>>

\* Variant of the return that leaves the search as soon as the sink is
\* marked, whatever the queue still holds.
EK_found_early ==
    /\ phase = "ek" /\ ekpc = "queue"
    /\ ek.visited[t]
    /\ cf_p' = inf
    /\ v' = t
    /\ ekpc' = "min"
    /\ eklens' = Append(eklens, Len(Chain(ek.pi, t, s, n)) - 1)
    /\ UNCHANGED ekf0
    /\ UNCHANGED <<input, others, phase, ffvars, ek, ekflow, Q, u, i, ekresult, ekaugs>>

\* return visited[t]; true: proc(s, t): cf_p = limits::inf; v = t;
EK_found ==
    /\ phase = "ek" /\ ekpc = "queue"
    /\ Q = <<>>
    /\ ek.visited[t]
    /\ cf_p' = inf
    /\ v' = t
    /\ ekpc' = "min"
    /\ eklens' = Append(eklens, Len(Chain(ek.pi, t, s, n)) - 1)
    /\ UNCHANGED ekf0
    /\ UNCHANGED <<input, others, phase, ffvars, ek, ekflow, Q, u, i, ekresult, ekaugs>>

\* while (v != s) { cf_p = std::min(cf_p, cf(pi[v], v)); v = pi[v]; }
EK_min ==
    /\ phase = "ek" /\ ekpc = "min"
    /\ v # s
    /\ cf_p' = Min(cf_p, ChainResidual(ek, v))
    /\ v' = ek.pi[v]
    /\ UNCHANGED <<input, others, ekhist, phase, ffvars, ek, ekpc, ekflow, Q, u, i, ekresult, ekaugs>>

\* v = t;
EK_min_end ==
    /\ phase = "ek" /\ ekpc = "min"
    /\ v = s
    /\ v' = t
    /\ ekpc' = "aug"
    /\ UNCHANGED <<input, others, ekhist, phase, ffvars, ek, ekflow, Q, u, i, cf_p, ekresult, ekaugs>>

\* while (v != s) { f[pi[v]][v] += cf_p;
EK_aug_add ==
    /\ phase = "ek" /\ ekpc = "aug"
    /\ v # s
    /\ ek' = [ek EXCEPT !.f = AddFlow(ek.f, ek.pi[v], v, cf_p)]
    /\ ekpc' = "upd"
    /\ UNCHANGED <<input, others, ekhist, phase, ffvars, ekflow, Q, u, i, v, cf_p, ekresult, ekaugs>>

\* f[v][pi[v]] -= cf_p; v = pi[v]; }
EK_aug_sub ==
    /\ phase = "ek" /\ ekpc = "upd"
    /\ ek' = [ek EXCEPT !.f = SubFlow(ek.f, v, ek.pi[v], cf_p)]
    /\ v' = ek.pi[v]
    /\ ekpc' = "aug"
    /\ UNCHANGED <<input, others, ekhist, phase, ffvars, ekflow, Q, u, i, cf_p, ekresult, ekaugs>>

\* return cf_p; flow += proc(s, t);
EK_augmented ==
    /\ phase = "ek" /\ ekpc = "aug"
    /\ v = s
    /\ IF AddOverflows(ekflow, cf_p)
          THEN \/ ekflow' = WrapAdd(ekflow, cf_p) /\ ekpc' = "while"
               \/ ekflow' = ekflow /\ ekpc' = "trap"
          ELSE ekflow' = Accumulate(ekflow, cf_p) /\ ekpc' = "while"
    /\ ekaugs' = Counted(ekaugs)
    /\ UNCHANGED <<input, others, ekhist, phase, ffvars, ek, Q, u, i, v, cf_p, ekresult>>

\* return visited[t]; false: return flow;
EK_return ==
    /\ phase = "ek" /\ ekpc = "queue"
    /\ Q = <<>>
    /\ ~ek.visited[t]
    /\ ekresult' = ekflow
    /\ ekpc' = "done"
    /\ phase' = "done"
    /\ UNCHANGED <<input, others, ekhist, ffvars, ek, ekflow, Q, u, i, v, cf_p, ekaugs>>

EKNext ==
    \/ EK_bfs \/ EK_dequeue \/ EK_for_end \/ EK_for_skip \/ EK_for_mark
    \/ EK_found \/ EK_min \/ EK_min_end \/ EK_aug_add \/ EK_aug_sub
    \/ EK_augmented \/ EK_return

Next == FFNext \/ EKNext

Spec == Init /\ [][Next]_vars

\* The program is sequential: whenever a step is possible it is taken.
FairSpec == Spec /\ WF_vars(Next)

(***************************************************************************)
(* A caller other than the Verify drivers: compute(s, t) with any two      *)
(* vertices, s = t included, on a network of up to QueryV vertices whose   *)
(* capacities are 1 or BigCap, a capacity_t value above limits::inf.  The  *)
(* caller runs ford_fulkerson and then edmonds_karp, or edmonds_karp only. *)
(***************************************************************************)
QueryV == 3
BigCap == 2 * inf

QueryOptions == {<<"none", 0>>} \cup ({"fwd", "bwd"} \X {1, BigCap})

QueryInputs(nn) == {GraphOf(EdgeSet(nn, opt), nn) : opt \in [Pairs(nn) -> QueryOptions]}

QueryInit ==
    /\ n \in 2 .. QueryV
    /\ s \in Vertices(n)
    /\ t \in Vertices(n)
    /\ G \in QueryInputs(n)
    /\ phase \in {"ff", "ek"}
    /\ Constructed
    /\ build = IdleBuild
    /\ ts = IdleTsort

QuerySpec == QueryInit /\ [][Next]_vars

(***************************************************************************)
(* A caller that fills an object itself: ford_fulkerson(size) or           *)
(* edmonds_karp(size), then up to MaxCalls calls of add_edge(u, v, cap)    *)
(* with any two vertices of the object and any capacity in -1..MaxCap.     *)
(* The two add_edge members are the same code.  build.net is the object,   *)
(* build.last the arguments of the latest call, build.prev those of the    *)
(* call before it, build.before the object as it was when the latest call  *)
(* was made.  add_edge returns void and throws                             *)
(* nothing, so the caller is never told of an error: build.reported stays  *)
(* FALSE.                                                                  *)
(***************************************************************************)
BuildV == 3
MaxCalls == 2

BuildInit ==
    /\ n \in 1 .. BuildV
    /\ s = 0
    /\ t = 0
    /\ G = [a \in Vertices(n) |-> <<>>]
    /\ phase = "build"
    /\ Constructed
    /\ build = [calls |-> 0, net |-> EmptyNet(n), before |-> EmptyNet(n),
                last |-> [u |-> 0, v |-> 0, cap |-> 0],
                prev |-> [u |-> 0, v |-> 0, cap |-> 0], reported |-> FALSE]
    /\ ts = IdleTsort

\* add_edge(a, b, cap)
Build_add_edge ==
    /\ phase = "build"
    /\ build.calls < MaxCalls
    /\ \E a \in Vertices(n), b \in Vertices(n), cap \in -1 .. MaxCap :
          build' = [calls |-> build.calls + 1,
                    net |-> add_edge(build.net, a, b, cap),
                    before |-> build.net,
                    last |-> [u |-> a, v |-> b, cap |-> cap],
                    prev |-> build.last,
                    reported |-> FALSE]
    /\ UNCHANGED <<input, phase, ffvars, ekvars, ts, again>>

BuildNext == Build_add_edge

BuildSpec == BuildInit /\ [][BuildNext]_vars

(***************************************************************************)
(* tsort(G): depth-first search that appends every vertex to lst as it is  *)
(* finished, then reverses lst.  color and lst are the locals the lambda   *)
(* dfs_visit captures by reference; the operators thread them through as   *)
(* the record st.  dfs_visit returns true on every path (its return false  *)
(* needs an inner call that returned false), so neither its early exit nor *)
(* tsort's return {} is ever taken and only st is carried back.            *)
(***************************************************************************)
\* reverse(lst.begin(), lst.end())
Reverse(q) == [k \in 1 .. Len(q) |-> q[Len(q) + 1 - k]]

\* dfs_visit(u): color[u] = gray; the range-for over G[u] from position k
\* on; color[u] = black; lst.push_back(u)
RECURSIVE tsort_for(_, _, _, _)
tsort_for(g, st, a, k) ==
    IF k > Len(g[a])
        THEN [color |-> [st.color EXCEPT ![a] = "black"], lst |-> Append(st.lst, a)]
    ELSE LET w == g[a][k].dst
         IN  IF st.color[w] = "white"
                 THEN tsort_for(g,
                          tsort_for(g, [st EXCEPT !.color[w] = "gray"], w, 1),
                          a, k + 1)
                 ELSE tsort_for(g, st, a, k + 1)

dfs_visit(g, st, a) == tsort_for(g, [st EXCEPT !.color[a] = "gray"], a, 1)

\* for (index_t v = 0; v < n; ++v) { if (color[v] == white && !dfs_visit(v)) ... }
RECURSIVE tsort_outer(_, _, _, _)
tsort_outer(g, st, a, nn) ==
    IF a >= nn THEN st
    ELSE tsort_outer(g, IF st.color[a] = "white" THEN dfs_visit(g, st, a) ELSE st,
                     a + 1, nn)

\* array_t tsort(const graph_t& G): color(n, white), lst(n)
tsort(g, nn) ==
    Reverse(tsort_outer(g,
                        [color |-> [a \in Vertices(nn) |-> "white"],
                         lst |-> [k \in 1 .. nn |-> 0]],
                        0, nn).lst)

(***************************************************************************)
(* A caller of tsort: G is any directed acyclic graph on up to TsortV      *)
(* vertices, each adjacency list ordered by destination.                   *)
(***************************************************************************)
TsortV == 4

OrderedPairs(nn) == {p \in Vertices(nn) \X Vertices(nn) : p[1] # p[2]}

\* The pairs joined by a path of one or more edges of E.
RECURSIVE Closure(_)
Closure(E) ==
    LET E2 == E \cup {<<pq[1][1], pq[2][2]>> : pq \in {r \in E \X E : r[1][2] = r[2][1]}}
    IN  IF E2 = E THEN E ELSE Closure(E2)

Acyclic(E) == \A p \in Closure(E) : p[1] # p[2]

Dags(nn) ==
    {GraphOf({[src |-> p[1], dst |-> p[2], c |-> 1] : p \in E}, nn) :
        E \in {D \in SUBSET OrderedPairs(nn) : Acyclic(D)}}

TsortInit ==
    /\ n \in 1 .. TsortV
    /\ s = 0
    /\ t = 0
    /\ G = [a \in Vertices(n) |-> <<>>]
    /\ phase = "tsort"
    /\ Constructed
    /\ build = IdleBuild
    /\ ts \in {[pc |-> "call", G |-> g, sorted |-> <<>>] : g \in Dags(n)}

\* array_t sorted = tsort(G)
TS_call ==
    /\ phase = "tsort"
    /\ ts.pc = "call"
    /\ ts' = [ts EXCEPT !.pc = "done", !.sorted = tsort(ts.G, n)]
    /\ UNCHANGED <<input, phase, ffvars, ekvars, build, again>>

TsortNext == TS_call

TsortSpec == TsortInit /\ [][TsortNext]_vars

(***************************************************************************)
(* A caller that calls compute(s, t) a second time on each object once     *)
(* both first calls have returned: ford_fulkerson again, then edmonds_karp *)
(* again.  compute starts with capacity_t flow = 0 and touches no member   *)
(* before its first search, so c, f and Gf are as the first call left      *)
(* them.  The ghost counts and histories start over with the call.         *)
(***************************************************************************)
\* Variant of the entry in which flow outlives the call (a member or a
\* static local) and is not set to 0.
FF_again_keeps_flow ==
    /\ phase = "done" /\ ffpc = "done" /\ ekpc = "done"
    /\ again.ff = 1
    /\ again' = [again EXCEPT !.ff = 2, !.ffresult = ffresult, !.fff = ff.f]
    /\ phase' = "ff"
    /\ ffpc' = "while"
    /\ ffaugs' = 0
    /\ UNCHANGED <<input, build, ts, ff, ffflow, stack, ret, ffresult, ffhist, ekvars>>

\* ff.compute(s, t) once more: capacity_t flow = 0;
FF_again ==
    /\ phase = "done" /\ ffpc = "done" /\ ekpc = "done"
    /\ again.ff = 1
    /\ again' = [again EXCEPT !.ff = 2, !.ffresult = ffresult, !.fff = ff.f]
    /\ phase' = "ff"
    /\ ffpc' = "while"
    /\ ffflow' = 0
    /\ ffaugs' = 0
    /\ UNCHANGED <<input, build, ts, ff, stack, ret, ffresult, ffhist, ekvars>>

\* ek.compute(s, t) once more: capacity_t flow = 0;
EK_again ==
    /\ phase = "ek" /\ ffpc = "done" /\ ekpc = "done"
    /\ again.ff = 2 /\ again.ek = 1
    /\ again' = [again EXCEPT !.ek = 2, !.ekresult = ekresult, !.ekf = ek.f]
    /\ ekpc' = "while"
    /\ ekflow' = 0
    /\ ekaugs' = 0
    /\ eklens' = <<>>
    /\ UNCHANGED <<input, build, ts, phase, ffvars, ek, Q, u, i, v, cf_p, ekresult, ekf0>>

RepeatNext == Next \/ FF_again \/ EK_again

RepeatSpec == Init /\ [][RepeatNext]_vars

(***************************************************************************)
(* Vocabulary of the properties.  The properties read c and f directly     *)
(* and the input G, never through the engines' own helpers.                *)
(***************************************************************************)
V == Vertices(n)

Residual(o, a, b) == o.c[a][b] - o.f[a][b]

RECURSIVE SumF(_, _)
SumF(fn, S) ==
    IF S = {} THEN 0
    ELSE LET x == CHOOSE y \in S : TRUE IN fn[x] + SumF(fn, S \ {x})

\* The original edges of the input network.
InputEdges == UNION {{G[a][k] : k \in 1 .. Len(G[a])} : a \in V}

\* Capacity of the cut (S, V \ S) of the input network.
CutCapacity(S) ==
    SumF([e \in InputEdges |-> IF e.src \in S /\ e.dst \notin S THEN e.c ELSE 0],
         InputEdges)

Cuts == {S \in SUBSET V : s \in S /\ t \notin S}

\* The minimum capacity over all cuts separating s from t.
MinCut ==
    CHOOSE m \in {CutCapacity(S) : S \in Cuts} :
        \A S \in Cuts : m <= CutCapacity(S)

\* Vertices reachable from s through pairs of positive residual capacity.
RECURSIVE ReachFrom(_, _)
ReachFrom(o, S) ==
    LET S2 == S \cup {b \in V : \E a \in S : Residual(o, a, b) > 0}
    IN  IF S2 = S THEN S ELSE ReachFrom(o, S2)

ResidualReach(o) == ReachFrom(o, {s})

\* Capacity, in the object's own matrix c, of the cut (S, V \ S).
ObjCutCapacity(o, S) ==
    SumF([p \in V \X V |-> IF p[1] \in S /\ p[2] \notin S THEN o.c[p[1]][p[2]] ELSE 0],
         V \X V)

\* Net flow leaving a, and net flow entering b.
NetOut(o, a) == SumF([b \in V |-> o.f[a][b]], V)
NetIn(o, b) == SumF([a \in V |-> o.f[a][b]], V)

FFDone == ffpc = "done"
EKDone == ekpc = "done"

(***************************************************************************)
(* C1: on every valid network, ford_fulkerson::compute(source, sink) on a  *)
(* freshly built object returns the maximum flow value, i.e. the minimum   *)
(* capacity over all cuts separating source from sink.                     *)
(***************************************************************************)
C1_FordFulkersonMaxFlow == FFDone => ffresult = MinCut

\* compute returned after two or more augmentations on a 4-vertex network.
C1_Witness == FFDone /\ n = 4 /\ ffaugs >= 2 /\ ffresult = MinCut /\ ffresult >= 3

(***************************************************************************)
(* C2: on every valid network, edmonds_karp::compute(source, sink) on a    *)
(* freshly built object returns the maximum flow value (the minimum cut    *)
(* capacity).                                                              *)
(***************************************************************************)
C2_EdmondsKarpMaxFlow == EKDone => ekresult = MinCut

C2_Witness == EKDone /\ n = 4 /\ ekaugs >= 3 /\ ekresult = MinCut /\ ekresult >= 3

(***************************************************************************)
(* C3: on the same input the two engines return identical flow values,     *)
(* even though their augmenting paths may differ.                          *)
(***************************************************************************)
C3_EnginesAgree == (FFDone /\ EKDone) => ffresult = ekresult

\* Both returned the same positive value after different numbers of
\* augmentations and with different final flow assignments.
C3_Witness ==
    /\ FFDone /\ EKDone
    /\ ffresult = ekresult /\ ffresult > 0
    /\ ffaugs # ekaugs
    /\ ff.f # ek.f

(***************************************************************************)
(* C4: when compute terminates (either engine), with S the vertices        *)
(* reachable from source through pairs of positive residual capacity:      *)
(* source is in S, sink is not, and the capacity of the cut (S, V \ S)     *)
(* equals the value compute returned.                                      *)
(***************************************************************************)
CutMatches(o, value) ==
    LET S == ResidualReach(o)
    IN  s \in S /\ t \notin S /\ ObjCutCapacity(o, S) = value

C4_ResidualCutEqualsValue ==
    /\ FFDone => CutMatches(ff, ffresult)
    /\ EKDone => CutMatches(ek, ekresult)

\* Both engines are done on a network whose residual cut is neither {s} nor
\* V \ {t}, with a positive value.
C4_Witness ==
    /\ FFDone /\ EKDone /\ n = 4
    /\ CutMatches(ff, ffresult) /\ CutMatches(ek, ekresult)
    /\ ffresult > 0
    /\ Cardinality(ResidualReach(ff)) = 2
    /\ Cardinality(ResidualReach(ek)) = 2

(***************************************************************************)
(* C5: in the state in which compute returns (either engine) there is no   *)
(* path from source to sink over pairs of strictly positive residual       *)
(* capacity.                                                               *)
(***************************************************************************)
C5_NoAugmentingPathAtReturn ==
    /\ FFDone => t \notin ResidualReach(ff)
    /\ EKDone => t \notin ResidualReach(ek)

\* Both engines returned after two or more augmentations; in the final
\* ford_fulkerson state residual pairs still leave the source, and yet the
\* sink is unreachable.
C5_Witness ==
    /\ FFDone /\ EKDone
    /\ ffaugs >= 2 /\ ekaugs >= 2
    /\ t \notin ResidualReach(ff) /\ t \notin ResidualReach(ek)
    /\ Cardinality(ResidualReach(ff)) >= 2

(***************************************************************************)
(* Observation points: the head of compute's while loop (before the first  *)
(* search and between augmentations) and the state after compute returned. *)
(***************************************************************************)
FFObserved == ffpc \in {"while", "done"}
EKObserved == ekpc \in {"while", "done"}

\* Flow into a and out of a over the original edges.
Inflow(o, a) ==
    SumF([e \in InputEdges |-> IF e.dst = a THEN o.f[e.src][e.dst] ELSE 0], InputEdges)
Outflow(o, a) ==
    SumF([e \in InputEdges |-> IF e.src = a THEN o.f[e.src][e.dst] ELSE 0], InputEdges)

(***************************************************************************)
(* C6 (as stated): at every point of a compute run, the states between     *)
(* individual edge updates included, every ordered pair (u, v) satisfies   *)
(* 0 <= f[u][v] <= c[u][v].                                                *)
(***************************************************************************)
ZeroToCapacity(o) == \A a \in V, b \in V : 0 <= o.f[a][b] /\ o.f[a][b] <= o.c[a][b]

WithinCapacity(o) ==
    /\ \A a \in V, b \in V : -o.c[b][a] <= o.f[a][b] /\ o.f[a][b] <= o.c[a][b]
    /\ \A e \in InputEdges :
          /\ 0 <= o.f[e.src][e.dst] /\ o.f[e.src][e.dst] <= e.c
          /\ o.f[e.dst][e.src] <= 0

Conserved(o) ==
    \A a \in V \ {s, t} : Inflow(o, a) = Outflow(o, a) /\ NetOut(o, a) = 0

C7_Conservation ==
    /\ FFObserved => Conserved(ff)
    /\ EKObserved => Conserved(ek)

\* Between two augmentations of edmonds_karp, an inner vertex carries two
\* units; ford_fulkerson left an inner vertex with flow on three edges.
C7_Witness ==
    /\ ekpc = "while" /\ ekaugs >= 2
    /\ Conserved(ek) /\ Conserved(ff)
    /\ \E a \in V \ {s, t} : Outflow(ek, a) >= 2
    /\ \E a \in V \ {s, t} :
          Cardinality({e \in InputEdges : (e.src = a \/ e.dst = a)
                                         /\ ff.f[e.src][e.dst] > 0}) >= 3

(***************************************************************************)
(* C8: at every observation point between augmentations and at             *)
(* termination, the flow value accumulated by compute equals the net flow  *)
(* leaving source (sum over v of f[source][v]) and the net flow entering   *)
(* sink (sum over v of f[v][sink]); the returned value equals both.        *)
(***************************************************************************)
C8_ValueConsistency ==
    /\ FFObserved => ffflow = NetOut(ff, s) /\ ffflow = NetIn(ff, t)
    /\ FFDone => ffresult = NetOut(ff, s) /\ ffresult = NetIn(ff, t)
    /\ EKObserved => ekflow = NetOut(ek, s) /\ ekflow = NetIn(ek, t)
    /\ EKDone => ekresult = NetOut(ek, s) /\ ekresult = NetIn(ek, t)

\* Between the second and a third augmentation of ford_fulkerson, on a
\* network with an edge into the source and one out of the sink.
C8_Witness ==
    /\ ffpc = "while" /\ ffaugs = 2 /\ ffflow = 3
    /\ ffflow = NetOut(ff, s) /\ ffflow = NetIn(ff, t)
    /\ \E e \in InputEdges : e.dst = s
    /\ \E e \in InputEdges : e.src = t

(***************************************************************************)
(* C9: at every observation point between augmentations and at             *)
(* termination (either engine), f[u][v] = -f[v][u] for every ordered pair. *)
(***************************************************************************)
SkewSymmetric(o) == \A a \in V, b \in V : o.f[a][b] = -o.f[b][a]

C9_SkewSymmetry ==
    /\ FFObserved => SkewSymmetric(ff)
    /\ EKObserved => SkewSymmetric(ek)

\* Both engines returned with nonzero, skew-symmetric flow that they
\* assigned differently.
C9_Witness ==
    /\ FFDone /\ EKDone
    /\ SkewSymmetric(ff) /\ SkewSymmetric(ek)
    /\ \E a \in V, b \in V : ff.f[a][b] >= 2
    /\ \E a \in V, b \in V : ek.f[a][b] > 0 /\ ff.f[a][b] = 0

(***************************************************************************)
(* C10: on every valid network with source # sink the search / augment     *)
(* loop of compute terminates for both engines: a search eventually        *)
(* reports no path and compute returns.                                    *)
(***************************************************************************)
C10_Terminates == <>FFDone /\ <>EKDone

\* Both compute calls returned after three or more augmentations each.
C10_Witness == FFDone /\ EKDone /\ ffaugs >= 3 /\ ekaugs >= 3

(***************************************************************************)
(* C14: over the successive successful searches of one                     *)
(* edmonds_karp::compute run, the number of edges of the augmenting path   *)
(* bfs found (the pi chain from sink to source) never decreases from one   *)
(* augmentation to the next.                                               *)
(***************************************************************************)
C14_MonotonePathLength ==
    \A k \in 1 .. Len(eklens) - 1 : eklens[k] <= eklens[k + 1]

\* compute returned after three or more augmentations whose paths grew from
\* the first to the last, the last one longer than any simple path over
\* original edges only would need to be on a 4-vertex network.
C14_Witness ==
    /\ EKDone /\ Len(eklens) >= 3
    /\ eklens[1] < eklens[Len(eklens)]
    /\ \E k \in 1 .. Len(eklens) - 1 : eklens[k] = eklens[k + 1]
    /\ eklens[Len(eklens)] >= 4

(***************************************************************************)
(* C15: if the input graph has no directed path of positive-capacity edges *)
(* from source to sink (source # sink), compute (either engine) returns 0  *)
(* after its very first search fails, performs zero augmentations, and the *)
(* flow matrix is still all zero.                                          *)
(***************************************************************************)
\* Vertices reachable from s over original edges of positive capacity.
RECURSIVE InputReachFrom(_)
InputReachFrom(S) ==
    LET S2 == S \cup {e.dst : e \in {d \in InputEdges : d.src \in S /\ d.c > 0}}
    IN  IF S2 = S THEN S ELSE InputReachFrom(S2)

SinkDisconnected == s # t /\ t \notin InputReachFrom({s})

ZeroFlow(o) == \A a \in V, b \in V : o.f[a][b] = 0

C15_DisconnectedSink ==
    SinkDisconnected =>
        /\ ffaugs = 0 /\ ZeroFlow(ff)
        /\ FFDone => ffresult = 0
        /\ ekaugs = 0 /\ ZeroFlow(ek)
        /\ EKDone => ekresult = 0

\* Both engines returned 0 on a 4-vertex network in which edges leave the
\* source, edges enter the sink, and an edge leaves the sink, yet no path
\* joins source to sink.
C15_Witness ==
    /\ SinkDisconnected /\ n = 4
    /\ FFDone /\ EKDone /\ ffresult = 0 /\ ekresult = 0
    /\ ffaugs = 0 /\ ekaugs = 0 /\ ZeroFlow(ff) /\ ZeroFlow(ek)
    /\ Cardinality(InputReachFrom({s})) >= 2
    /\ \E e \in InputEdges : e.dst = t
    /\ \E e \in InputEdges : e.src = t

(***************************************************************************)
(* C11: compute(source, sink) with source = sink (either engine) returns   *)
(* 0, performs no augmentation and leaves the flow matrix exactly as it    *)
(* was (all zero on a fresh object).                                       *)
(***************************************************************************)
C11_DegenerateQuery ==
    s = t =>
        /\ ffaugs = 0 /\ ZeroFlow(ff)
        /\ FFDone => ffresult = 0
        /\ ekaugs = 0 /\ ZeroFlow(ek)
        /\ EKDone => ekresult = 0

(***************************************************************************)
(* C12: a call add_edge(u, v, capacity) with negative capacity, with       *)
(* u = v, or with (v, u) already present as an original edge is reported   *)
(* as an error to the caller and leaves the residual network (c, f,        *)
(* adjacency) unchanged.  (Vertex indices stay in range here.)             *)
(***************************************************************************)
InvalidCall(call, net) ==
    \/ call.cap < 0
    \/ call.u = call.v
    \/ net.c[call.v][call.u] > 0

C12_InvalidEdgeRejected ==
    (build.calls > 0 /\ InvalidCall(build.last, build.before)) =>
        build.reported /\ build.net = build.before

(***************************************************************************)
(* C13: the total flow value accumulated by compute never wraps, even when *)
(* every capacity fits the 32-bit capacity type but the sum of the         *)
(* augmentations exceeds its range: at every observation point the         *)
(* accumulator holds the sum of the flow leaving the source, and so does   *)
(* the returned value.  (source # sink; the case source = sink is C11's.)  *)
(***************************************************************************)
\* total is the sum of fs over S.  The entries are taken off total one by
\* one, so that no sum above 2^31 - 1 is ever formed; they are the flows
\* on the pairs leaving the source, none of them negative.
RECURSIVE IsSumOf(_, _, _)
IsSumOf(total, fs, S) ==
    IF S = {} THEN total = 0
    ELSE LET b == CHOOSE x \in S : TRUE
         IN  total >= fs[b] /\ IsSumOf(total - fs[b], fs, S \ {b})

C13_AccumulatorNeverWraps ==
    s # t =>
        /\ ffpc # "trap" /\ ekpc # "trap"
        /\ FFObserved => IsSumOf(ffflow, ff.f[s], V)
        /\ FFDone => IsSumOf(ffresult, ff.f[s], V)
        /\ EKObserved => IsSumOf(ekflow, ek.f[s], V)
        /\ EKDone => IsSumOf(ekresult, ek.f[s], V)

(***************************************************************************)
(* C16: for every directed acyclic graph G with n vertices, tsort(G)       *)
(* returns a list that contains each vertex of G exactly once (length n)   *)
(* and in which u appears before v for every edge (u, v) of G.             *)
(***************************************************************************)
Positions(q, x) == {k \in 1 .. Len(q) : q[k] = x}

C16_TopologicalOrder ==
    ts.pc = "done" =>
        /\ Len(ts.sorted) = n
        /\ \A x \in V : Cardinality(Positions(ts.sorted, x)) = 1
        /\ \A a \in V : \A k \in 1 .. Len(ts.G[a]) :
              \A pa \in Positions(ts.sorted, a) :
                  \A pb \in Positions(ts.sorted, ts.G[a][k].dst) : pa < pb

(***************************************************************************)
(* C17: in any compute run the phases follow SEARCHING -> AUGMENTING ->    *)
(* SEARCHING ... -> TERMINATED only: flow entries are modified only as     *)
(* part of an augmentation that directly follows a search which found a    *)
(* path, every successful search is followed by exactly one augmentation   *)
(* of that path, and after the first search that finds no path nothing is  *)
(* searched or mutated again before compute returns.                       *)
(***************************************************************************)
\* ford_fulkerson augments while the calls unwind from the sink: a
\* dfs_visit has returned a positive value and the frames above apply it.
FFPhase ==
    IF ffpc = "done" THEN "TERMINATED"
    ELSE IF ffpc = "upd" \/ (ffpc = "ret" /\ ret > 0) THEN "AUGMENTING"
    ELSE "SEARCHING"

\* edmonds_karp augments inside proc.
EKPhase ==
    IF ekpc = "done" THEN "TERMINATED"
    ELSE IF ekpc \in {"min", "aug", "upd"} THEN "AUGMENTING"
    ELSE "SEARCHING"

PhaseOrder ==
    {<<"SEARCHING", "SEARCHING">>, <<"SEARCHING", "AUGMENTING">>,
     <<"AUGMENTING", "AUGMENTING">>, <<"AUGMENTING", "SEARCHING">>,
     <<"SEARCHING", "TERMINATED">>, <<"TERMINATED", "TERMINATED">>}

\* The search in progress has just entered the sink / has emptied its queue.
FFSearchFound == ffpc = "entry" /\ Top.u = t
FFSearchFailed == ffpc = "ret" /\ stack = <<>> /\ ret <= 0
EKSearchFound == ekpc = "queue" /\ Q = <<>> /\ ek.visited[t]
EKSearchFailed == ekpc = "queue" /\ Q = <<>> /\ ~ek.visited[t]

C17_FFStep ==
    /\ <<FFPhase, FFPhase'>> \in PhaseOrder
    /\ ff.f' # ff.f => FFPhase = "AUGMENTING" /\ FFPhase' = "AUGMENTING"
    /\ (FFPhase = "SEARCHING" /\ FFPhase' = "AUGMENTING") <=> FFSearchFound
    /\ (FFPhase = "AUGMENTING" /\ FFPhase' = "SEARCHING") =>
          ffaugs' = ffaugs + 1 /\ ffpc' = "while" /\ ff.f # fff0
    /\ ffaugs' # ffaugs => FFPhase = "AUGMENTING" /\ FFPhase' = "SEARCHING"
    /\ (FFPhase = "SEARCHING" /\ FFPhase' = "TERMINATED") <=> FFSearchFailed
    /\ FFSearchFailed => ff.f' = ff.f /\ ff.f = fff0
    /\ FFPhase = "TERMINATED" => ffvars' = ffvars

C17_EKStep ==
    /\ <<EKPhase, EKPhase'>> \in PhaseOrder
    /\ ek.f' # ek.f => EKPhase = "AUGMENTING" /\ EKPhase' = "AUGMENTING"
    /\ (EKPhase = "SEARCHING" /\ EKPhase' = "AUGMENTING") <=> EKSearchFound
    /\ (EKPhase = "AUGMENTING" /\ EKPhase' = "SEARCHING") =>
          ekaugs' = ekaugs + 1 /\ ekpc' = "while" /\ ek.f # ekf0
    /\ ekaugs' # ekaugs => EKPhase = "AUGMENTING" /\ EKPhase' = "SEARCHING"
    /\ (EKPhase = "SEARCHING" /\ EKPhase' = "TERMINATED") <=> EKSearchFailed
    /\ EKSearchFailed => ek.f' = ek.f /\ ek.f = ekf0
    /\ EKPhase = "TERMINATED" => ekvars' = ekvars

C17_StateMachine == [][C17_FFStep /\ C17_EKStep]_vars

\* Both engines went through two or more augmentations, a different number
\* each, and terminated.
C17_Witness ==
    /\ FFPhase = "TERMINATED" /\ EKPhase = "TERMINATED"
    /\ ffaugs >= 2 /\ ekaugs >= 2 /\ ffaugs # ekaugs

(***************************************************************************)
(* C18: whenever edmonds_karp::bfs(s, t) returns true (s # t), following   *)
(* pi from t reaches s, every edge (pi[v], v) on that chain has strictly   *)
(* positive residual capacity, and the number of edges on the chain equals *)
(* the minimum number of edges of any s-to-t path in the current residual  *)
(* network; bfs returns false exactly when no such path exists.            *)
(***************************************************************************)
\* The fewest edges of a path from the set S (d edges away from s) to t in
\* the residual network of o; -1 when there is none.
RECURSIVE LayersToSink(_, _, _)
LayersToSink(o, S, d) ==
    IF t \in S THEN d
    ELSE LET S2 == S \cup {b \in V : \E a \in S : Residual(o, a, b) > 0}
         IN  IF S2 = S THEN -1 ELSE LayersToSink(o, S2, d + 1)

ShortestAugmentingPath(o) == LayersToSink(o, {s}, 0)

C18_BfsShortestPath ==
    /\ EKSearchFound =>
          LET ch == Chain(ek.pi, t, s, n)
          IN  /\ ch[Len(ch)] = s
              /\ \A k \in 1 .. Len(ch) - 1 : Residual(ek, ch[k + 1], ch[k]) > 0
              /\ Len(ch) - 1 = ShortestAugmentingPath(ek)
    /\ EKSearchFailed => ShortestAugmentingPath(ek) = -1

\* bfs is about to return true, after earlier augmentations, with a chain
\* of four or more edges one of which is the reverse of an original edge.
C18_Witness ==
    /\ EKSearchFound /\ ekaugs >= 1
    /\ LET ch == Chain(ek.pi, t, s, n)
       IN  /\ ch[Len(ch)] = s
           /\ Len(ch) - 1 >= 4
           /\ Len(ch) - 1 = ShortestAugmentingPath(ek)
           /\ \E k \in 1 .. Len(ch) - 1 : ek.c[ch[k + 1]][ch[k]] = 0

(***************************************************************************)
(* C19: in edmonds_karp::proc the amount added to f[pi[v]][v] (and         *)
(* subtracted from f[v][pi[v]]) for every edge of the predecessor chain    *)
(* from sink to source is one and the same value, equal to the minimum     *)
(* residual capacity over all edges of that chain as measured before any   *)
(* edge of the chain is updated; no flow entry is written before that      *)
(* minimum has been computed over the whole chain, and proc returns that   *)
(* value.  (source # sink.)                                                *)
(***************************************************************************)
\* The smallest of c[a][b] - f0[a][b] over the pairs (a, b) = (ch[k+1], ch[k]).
RECURSIVE MinResidualFrom(_, _, _, _)
MinResidualFrom(c, f0, ch, k) ==
    LET here == c[ch[k + 1]][ch[k]] - f0[ch[k + 1]][ch[k]]
    IN  IF k >= Len(ch) - 1 THEN here
        ELSE LET rest == MinResidualFrom(c, f0, ch, k + 1)
             IN  IF rest < here THEN rest ELSE here

\* f0 with d added on the pairs (ch[k+1], ch[k]), k in Fwd, and taken off
\* the reverse pairs (ch[k], ch[k+1]), k in Bwd.
Pushed(f0, ch, d, Fwd, Bwd) ==
    [a \in V |-> [b \in V |->
        f0[a][b]
        + (IF \E k \in Fwd : a = ch[k + 1] /\ b = ch[k] THEN d ELSE 0)
        - (IF \E k \in Bwd : a = ch[k] /\ b = ch[k + 1] THEN d ELSE 0)]]

\* The position of w on the chain.
PositionOn(ch, w) == CHOOSE k \in 1 .. Len(ch) : ch[k] = w

C19_ProcBottleneck ==
    s # t =>
        LET ch == Chain(ek.pi, t, s, n)
            m == MinResidualFrom(ek.c, ekf0, ch, 1)
            done == 1 .. (PositionOn(ch, v) - 1)
        IN  /\ ekpc = "min" => ek.f = ekf0
            /\ ekpc = "aug" =>
                  cf_p = m /\ ek.f = Pushed(ekf0, ch, m, done, done)
            /\ ekpc = "upd" =>
                  cf_p = m
                  /\ ek.f = Pushed(ekf0, ch, m, done \cup {PositionOn(ch, v)}, done)

(***************************************************************************)
(* C20: when ford_fulkerson::dfs(s, t) succeeds (s # t), the value stored  *)
(* in augment equals the minimum residual capacity, measured before the    *)
(* search, over the edges of the s-to-t path the recursion discovered;     *)
(* f[x][y] is increased and f[y][x] decreased by exactly that value for    *)
(* each edge (x, y) of that path, and every other flow entry is unchanged. *)
(***************************************************************************)
C20_DfsAugment ==
    (s # t /\ ffpc = "while" /\ ff.augment > 0) =>
        LET ch == Reverse(ffpath)
            m == MinResidualFrom(ff.c, fff0, ch, 1)
            all == 1 .. (Len(ch) - 1)
        IN  /\ ch[1] = t /\ ch[Len(ch)] = s
            /\ ff.augment = m
            /\ ff.f = Pushed(fff0, ch, m, all, all)

(***************************************************************************)
(* C21 (as stated): edmonds_karp::bfs terminates early once the sink is    *)
(* marked visited: after the step that marks the sink, no further vertex   *)
(* is dequeued, marked visited or given a predecessor; the frontier is     *)
(* exhausted only when the sink is unreachable.                            *)
(***************************************************************************)
\* bfs is inside its while (!Q.empty()) loop.
InBfs == phase = "ek" /\ ekpc \in {"queue", "for"}

C21_AsStated ==
    [][(InBfs /\ ek.visited[t]) =>
          /\ ~(ekpc = "queue" /\ ekpc' = "for")
          /\ ek.visited' = ek.visited
          /\ ek.pi' = ek.pi
          /\ ~(ekpc = "queue" /\ Q = <<>>)]_vars

(***************************************************************************)
(* C21 (amended): edmonds_karp::bfs does not terminate early: it leaves    *)
(* its loop only when the queue is empty, whether or not the sink has been *)
(* marked, and then returns true exactly when the sink is marked.  After   *)
(* the step that marks the sink the remaining vertices are still dequeued, *)
(* and vertices not yet marked may still be marked and given a             *)
(* predecessor; a vertex that is already marked, the sink included, keeps  *)
(* its mark and its predecessor until the search ends.                     *)
(***************************************************************************)
C21_DrainsQueue ==
    [][InBfs =>
          /\ \A x \in V : ek.visited[x] => ek.visited'[x] /\ ek.pi'[x] = ek.pi[x]
          /\ ekpc' \notin {"queue", "for"} =>
                /\ ekpc = "queue" /\ Q = <<>>
                /\ ekpc' = "min" <=> ek.visited[t]
                /\ ekpc' = "done" <=> ~ek.visited[t]
          /\ (ekpc = "queue" /\ Q # <<>> /\ ek.visited[t]) =>
                ekpc' = "for" /\ u' = Head(Q) /\ Q' = Tail(Q)]_vars

\* The sink itself has just been dequeued, and behind it the queue holds a
\* vertex that was marked and given a predecessor after the sink was.
C21_Witness ==
    /\ InBfs /\ ekpc = "for" /\ i = 1 /\ s # t
    /\ u = t /\ ek.visited[t]
    /\ Q # <<>> /\ ek.visited[Q[1]] /\ ek.pi[Q[1]] \in V

(***************************************************************************)
(* C22: the visited marks are freshly reset at the start of every          *)
(* path-search invocation (ford_fulkerson::dfs and edmonds_karp::bfs): no  *)
(* mark set by an earlier search of the same compute run is still set when *)
(* a later search starts, so whether a search finds a path depends only on *)
(* the current c and f: it finds one exactly when the residual network has *)
(* a path from source to sink.                                             *)
(***************************************************************************)
\* dfs has made its root call of dfs_visit, which has not marked anything
\* yet; bfs has marked and queued the source and nothing else.
FFSearchStarts == ffpc = "entry" /\ Len(stack) = 1
EKSearchStarts == ekpc = "queue" /\ Q = <<s>> /\ ek.pi[s] = nil

C22_FreshMarks ==
    /\ FFSearchStarts => \A x \in V : ~ff.visited[x]
    /\ EKSearchStarts => \A x \in V : ek.visited[x] <=> x = s
    /\ FFSearchFound => t \in ResidualReach(ff)
    /\ FFSearchFailed => t \notin ResidualReach(ff)
    /\ EKSearchFound => t \in ResidualReach(ek)
    /\ EKSearchFailed => t \notin ResidualReach(ek)

\* bfs starts its third or a later search with the source as the only
\* marked vertex, after a ford_fulkerson run of three or more searches.
C22_Witness ==
    /\ EKSearchStarts /\ ekaugs >= 2
    /\ \A x \in V : ek.visited[x] <=> x = s
    /\ t \in ResidualReach(ek)
    /\ FFDone /\ ffaugs >= 2

(***************************************************************************)
(* C23: within one ford_fulkerson::dfs invocation dfs_visit is entered at  *)
(* most once per vertex (a vertex is marked on entry and marked vertices   *)
(* are never re-entered), so the path along which flow is augmented is     *)
(* simple: no vertex and no ordered pair is updated twice in one           *)
(* augmentation.                                                           *)
(***************************************************************************)
Distinct(q) == \A j \in 1 .. Len(q), k \in 1 .. Len(q) : j # k => q[j] # q[k]

\* The calls are unwinding from the sink with the amount ret.
FFUnwinding == ffpc \in {"ret", "upd"} /\ ret > 0

C23_SimplePath ==
    [][/\ ffpc = "entry" => ~ff.visited[Top.u]
       /\ ffpc \in {"entry", "loop", "ret", "upd"} =>
             /\ \A x \in V : ff.visited[x] => ff.visited'[x]
             /\ \A k \in 1 .. Len(stack) :
                   (ffpc = "entry" /\ k = Len(stack)) \/ ff.visited[stack[k].u]
       /\ Distinct([k \in 1 .. Len(stack) |-> stack[k].u])
       /\ FFUnwinding =>
             /\ Distinct(ffpath)
             /\ \A a \in V, b \in V :
                   ff.f[a][b] - fff0[a][b] \in {0, ret, -ret}]_vars

\* The calls are unwinding along a path of four or more vertices after the
\* search ran into a dead end: a marked vertex lies off the path.
C23_Witness ==
    /\ FFUnwinding /\ ffpc = "ret" /\ stack = <<>>
    /\ Len(ffpath) >= 4 /\ Distinct(ffpath)
    /\ \E x \in V : ff.visited[x] /\ \A k \in 1 .. Len(ffpath) : ffpath[k] # x
    /\ \E a \in V : ff.f[a][t] - fff0[a][t] = ret

(***************************************************************************)
(* C24 (as stated): during a ford_fulkerson::dfs search that finds a path, *)
(* the nesting depth of dfs_visit calls never exceeds the number of        *)
(* vertices on the augmenting path that the search ends up discovering,    *)
(* and never exceeds n - 1 edges below the root call.                      *)
(***************************************************************************)
C24_AsStated ==
    FFUnwinding => ffdepth <= Len(ffpath) /\ ffdepth - 1 <= n - 1

(***************************************************************************)
(* C24 (amended): during a ford_fulkerson::dfs search the nesting depth of *)
(* dfs_visit calls never exceeds n calls, that is n - 1 edges below the    *)
(* root call.  The discovered path does not bound it: the path has no more *)
(* vertices than the deepest nesting of the search, since a branch that    *)
(* ended in a dead end earlier in the same search may have nested deeper   *)
(* than the path that is finally discovered.                               *)
(***************************************************************************)
C24_DepthBound ==
    /\ Len(stack) <= ffdepth
    /\ ffdepth - 1 <= n - 1
    /\ FFUnwinding => Len(ffpath) <= ffdepth

\* A search found a path after a dead-end branch that nested deeper than
\* the path has vertices, on a network of five or more vertices.
C24_Witness ==
    /\ FFUnwinding /\ n >= 5
    /\ Len(ffpath) < ffdepth
    /\ ffdepth >= 4

(***************************************************************************)
(* C25: for a valid network with integer capacities and source # sink,     *)
(* every successful augmentation of ford_fulkerson::compute raises the     *)
(* accumulated flow by at least 1, so the number of augmentations          *)
(* performed in one run never exceeds the maximum flow value |f*| of the   *)
(* network (its minimum cut capacity).                                     *)
(***************************************************************************)
C25_AugmentationCount ==
    /\ (ffpc = "ret" /\ stack = <<>> /\ ret # 0) => ret >= 1
    /\ ffaugs <= ffflow
    /\ ffflow <= MinCut
    /\ ffaugs <= MinCut

\* compute returned after as many augmentations as the maximum flow value,
\* three or more, each of one unit.
C25_Witness ==
    /\ FFDone /\ s # t
    /\ ffaugs >= 3 /\ ffaugs = MinCut /\ ffresult = MinCut

(***************************************************************************)
(* C26: for a valid network (no self-loops, no opposite-direction original *)
(* edges), at every observation point of either engine the value           *)
(* c[u][v] - f[u][v] returned by cf(u, v) equals the three-case residual   *)
(* capacity: c(u, v) - f(u, v) when (u, v) is an original edge, the flow   *)
(* f(v, u) on the original edge when (v, u) is an original edge, and 0     *)
(* when neither is an original edge.                                       *)
(***************************************************************************)
\* The capacity of the original edge (a, b) of the input; IsEdge tells
\* whether there is one.
IsEdge(a, b) == \E e \in InputEdges : e.src = a /\ e.dst = b
InputCapacity(a, b) == (CHOOSE e \in InputEdges : e.src = a /\ e.dst = b).c

ThreeCase(o, a, b) ==
    IF IsEdge(a, b) THEN InputCapacity(a, b) - o.f[a][b]
    ELSE IF IsEdge(b, a) THEN o.f[b][a]
    ELSE 0

C26_ThreeCaseResidual ==
    /\ FFObserved => \A a \in V, b \in V : cf(ff, a, b) = ThreeCase(ff, a, b)
    /\ EKObserved => \A a \in V, b \in V : cf(ek, a, b) = ThreeCase(ek, a, b)

\* Between two augmentations of edmonds_karp, after ford_fulkerson returned:
\* in both objects some original edge carries flow short of its capacity,
\* so that both of its pairs have positive residual capacity, and some pair
\* of distinct vertices has no edge either way.
C26_Witness ==
    /\ FFDone /\ ekpc = "while" /\ ekaugs >= 1
    /\ \A o \in {ff, ek} :
          /\ \E e \in InputEdges :
                /\ 0 < o.f[e.src][e.dst] /\ o.f[e.src][e.dst] < e.c
                /\ cf(o, e.dst, e.src) = o.f[e.src][e.dst]
                /\ cf(o, e.src, e.dst) = e.c - o.f[e.src][e.dst]
          /\ \E a \in V, b \in V :
                a # b /\ ~IsEdge(a, b) /\ ~IsEdge(b, a) /\ cf(o, a, b) = 0

(***************************************************************************)
(* C27: for a valid network, the residual capacity c[u][v] - f[u][v] is    *)
(* >= 0 for every ordered pair (u, v) in every reachable state of a        *)
(* compute run (either engine), including the states between single edge   *)
(* updates of an augmentation; consequently the code's test                *)
(* cf(u, v) == 0 is equivalent to the specified test cf(u, v) > 0 being    *)
(* false.                                                                  *)
(***************************************************************************)
NonNegativeResidual(o) == \A a \in V, b \in V : o.c[a][b] - o.f[a][b] >= 0

\* The pair the range-for of dfs_visit / bfs is about to test, if any.
FFTested == IF ffpc = "loop" /\ Top.i <= Len(ff.Gf[Top.u])
                THEN {<<Top.u, ff.Gf[Top.u][Top.i]>>} ELSE {}
EKTested == IF ekpc = "for" /\ i <= Len(ek.Gf[u])
                THEN {<<u, ek.Gf[u][i]>>} ELSE {}

C27_ResidualNonNegative ==
    /\ NonNegativeResidual(ff)
    /\ NonNegativeResidual(ek)
    /\ \A p \in FFTested : (cf(ff, p[1], p[2]) = 0) <=> ~(Residual(ff, p[1], p[2]) > 0)
    /\ \A p \in EKTested : (cf(ek, p[1], p[2]) = 0) <=> ~(Residual(ek, p[1], p[2]) > 0)

\* dfs_visit is between the two writes of an edge update that saturates an
\* original edge, in a second or later augmentation.
C27_Witness ==
    /\ ffpc = "upd" /\ ffaugs >= 1
    /\ NonNegativeResidual(ff)
    /\ LET a == Top.u
           b == ff.Gf[Top.u][Top.i]
       IN  /\ ff.c[a][b] > 0
           /\ ff.c[a][b] - ff.f[a][b] = 0
           /\ ff.f[b][a] # -ff.f[a][b]

(***************************************************************************)
(* C28: a search that finds no path mutates no flow: when                  *)
(* ford_fulkerson::dfs returns false (including every dead-end dfs_visit   *)
(* call that returns 0 inside a search that later succeeds through another *)
(* branch) or edmonds_karp::bfs returns false, every entry of f and c has  *)
(* the value it had when the call started.                                 *)
(***************************************************************************)
\* A dfs_visit call has just returned 0: a dead end, or the root call of a
\* search that found nothing.
FFDeadEnd == ffpc = "ret" /\ ret = 0

\* c as the constructor left it.
BuiltCapacity == Construct(G, n).c

C28_FailedSearchFrame ==
    /\ ff.c = BuiltCapacity /\ ek.c = BuiltCapacity
    /\ ffpc \in {"entry", "loop"} => ff.f = fff0
    /\ FFDeadEnd => ff.f = fff0
    /\ FFSearchFailed => ff.f = fff0
    /\ InBfs => ek.f = ekf0
    /\ EKSearchFailed => ek.f = ekf0

\* A dfs_visit call below the root has returned 0 in a search that follows
\* an augmentation and will still succeed through another branch.
C28_Witness ==
    /\ FFDeadEnd /\ stack # <<>> /\ ffaugs >= 1
    /\ ff.f = fff0 /\ ~ZeroFlow(ff)
    /\ t \in ResidualReach(ff)

(***************************************************************************)
(* C29: compute does not reset the flow, so after compute(s, t) has        *)
(* terminated on an object, a second compute(s, t) on the same object      *)
(* (valid network, s # t) returns 0, performs no augmentation and leaves f *)
(* unchanged; the maximum flow value is obtained again only from a freshly *)
(* built object.                                                           *)
(***************************************************************************)
C29_SecondCompute ==
    /\ again.ff = 2 =>
          /\ again.ffresult = MinCut
          /\ ffaugs = 0 /\ ffflow = 0 /\ ff.f = again.fff
          /\ FFDone => ffresult = 0
    /\ again.ek = 2 =>
          /\ again.ekresult = MinCut
          /\ ekaugs = 0 /\ ekflow = 0 /\ ek.f = again.ekf
          /\ EKDone => ekresult = 0

\* Both second calls have returned 0 on objects whose first calls returned
\* a maximum flow of three or more; the flow is still in place.
C29_Witness ==
    /\ again.ff = 2 /\ again.ek = 2 /\ FFDone /\ EKDone /\ s # t
    /\ again.ffresult >= 3 /\ again.ekresult >= 3
    /\ ffresult = 0 /\ ekresult = 0
    /\ ff.f = again.fff /\ ek.f = again.ekf /\ ~ZeroFlow(ff) /\ ~ZeroFlow(ek)

(***************************************************************************)
(* C30: add_edge is last-write-wins on the capacity matrix: after          *)
(* add_edge(u, v, c1) followed by add_edge(u, v, c2) the pair has capacity *)
(* c[u][v] = c2 (not c1 + c2), and after add_edge(u, v, c1) followed by    *)
(* add_edge(v, u, c2) the state is c[v][u] = c2 and c[u][v] = 0, so the    *)
(* earlier edge's capacity is lost; in both cases the adjacency lists of u *)
(* and v gain a second entry for each other.  (u and v are two vertices;   *)
(* the object was empty before the two calls.)                             *)
(***************************************************************************)
C30_LastWriteWins ==
    (phase = "build" /\ build.calls = 2 /\ build.prev.u # build.prev.v) =>
        LET a == build.prev.u
            b == build.prev.v
            twice == build.net.Gf[a] = <<b, b>> /\ build.net.Gf[b] = <<a, a>>
        IN  /\ (build.last.u = a /\ build.last.v = b) =>
                  /\ build.net.c[a][b] = build.last.cap
                  /\ build.net.c[b][a] = 0
                  /\ twice
            /\ (build.last.u = b /\ build.last.v = a) =>
                  /\ build.net.c[b][a] = build.last.cap
                  /\ build.net.c[a][b] = 0
                  /\ twice

\* add_edge(1, 2, 2) was followed by add_edge(2, 1, 1): the capacity 2 is
\* gone.
C30_Witness ==
    /\ phase = "build" /\ build.calls = 2
    /\ build.prev = [u |-> 1, v |-> 2, cap |-> 2]
    /\ build.last = [u |-> 2, v |-> 1, cap |-> 1]
    /\ build.net.c[2][1] = 1 /\ build.net.c[1][2] = 0
    /\ build.net.Gf[1] = <<2, 2>> /\ build.net.Gf[2] = <<1, 1>>

=============================================================================
